---- MODULE Spec2Model ----
(***************************************************************************)
(* Model of the addressables catalog of catalog_bundle_tool:               *)
(*   catalog/src/catalog.rs  the Catalog and its query/mutation methods    *)
(*   catalog/src/lookup.rs   the four binary tables and their codec        *)
(*   src/main.rs             recursive_deps                                *)
(* A Rust String is modelled as the sequence of its UTF-8 bytes, so that   *)
(* String::len() is Len.  Positions are 0-based in the code and 1-based in *)
(* TLA+ sequences: position p of a Vec is element p + 1 of the sequence.   *)
(***************************************************************************)
EXTENDS Integers, Sequences, FiniteSets, TLC

VARIABLES
    m_InternalIds,      \* Catalog.m_InternalIds      : Vec<String>
    m_KeyDataString,    \* Catalog.m_KeyDataString    : KeyData    {count, entries}
    m_BucketDataString, \* Catalog.m_BucketDataString : BucketData {count, entries}
    m_EntryDataString,  \* Catalog.m_EntryDataString  : EntryData  {count, entries}
    m_ExtraDataString,  \* Catalog.m_ExtraDataString  : ExtraData  {entries}
    ret,                \* the last call: its name, arguments and returned value
    aborted,            \* TRUE once a call has panicked (the process is gone)
    io                  \* the codec's last run: input, bytes written, value read

vars == <<m_InternalIds, m_KeyDataString, m_BucketDataString, m_EntryDataString,
          m_ExtraDataString, ret, aborted, io>>

catalogVars == <<m_InternalIds, m_KeyDataString, m_BucketDataString,
                 m_EntryDataString, m_ExtraDataString>>

----------------------------------------------------------------------------
(* Bounds of the model *)

MaxEntries == 3    \* no add_bundle / add_prefab once the Entry Table holds this many
MaxKeys == 3       \* no add_key / add_dependency_key once the Key Table holds this many
MaxIds == 3        \* no add_internalid once the registry holds this many
MaxExtras == 2     \* no add_extra_data once the stream holds this many
MaxDeps == 2       \* longest dependency list handed to an operation
MaxDraws == 2      \* draws of the random source enumerated for one call
MaxRecords == 2    \* records of a table handed to the codec
StackDepth == 8    \* recursion depth at which recursive_deps is cut off

----------------------------------------------------------------------------
(* Option<T> and small helpers *)

None == [some |-> FALSE, v |-> 0]
Some(x) == [some |-> TRUE, v |-> x]

Last(s) == s[Len(s)]

SeqsUpTo(S, n) == UNION {[1..k -> S] : k \in 0..n}

RECURSIVE Concat(_)
Concat(ss) == IF ss = <<>> THEN <<>> ELSE Head(ss) \o Concat(Tail(ss))

VecGet_clamped(s, i) ==
    IF s # <<>> /\ i < Len(s) THEN Some(s[(IF i < 0 THEN 0 ELSE i) + 1]) ELSE None

\* Vec::get(i as usize) for a signed index i: a negative i casts to a value
\* of at least 2^63, beyond the length of any Vec, so get returns None.
VecGet(s, i) == IF i >= 0 /\ i < Len(s) THEN Some(s[i + 1]) ELSE None

----------------------------------------------------------------------------
(* lookup.rs: the records *)

\* KeyDataValue::from_string
from_string(string) == [tag |-> "String", length |-> Len(string), string |-> string, hash |-> 0]

\* KeyDataValue::Hash
Hash(h) == [tag |-> "Hash", length |-> 0, string |-> <<>>, hash |-> h]

\* KeyDataValue::get_size
get_size(key) == IF key.tag = "String" THEN key.length + 5 ELSE 5

BucketEntry(key_data_offset, count, indices) ==
    [key_data_offset |-> key_data_offset, count |-> count, indices |-> indices]

EntryValue(internal_id, provider_index, dependency_key_idx, dependency_hash, data_index, primary_key, resource_type) ==
    [internal_id |-> internal_id, provider_index |-> provider_index,
     dependency_key_idx |-> dependency_key_idx, dependency_hash |-> dependency_hash,
     data_index |-> data_index, primary_key |-> primary_key,
     resource_type |-> resource_type]

ExtraValue(key_type, assembly_name, class_name, json_text) ==
    [key_type |-> key_type,
     assembly_name_len |-> Len(assembly_name), assembly_name |-> assembly_name,
     class_name_len |-> Len(class_name), class_name |-> class_name,
     json_len |-> Len(json_text), json_text |-> json_text]

\* ExtraValue::get_size
extra_get_size(extra) ==
    1 + 1 + Len(extra.assembly_name) + 1 + Len(extra.class_name) + 4 + Len(extra.json_text)

----------------------------------------------------------------------------
(* lookup.rs: the codec.  A byte is a number of 0..255; the tables are     *)
(* written and read little-endian.  A reader yields result "ok" with the   *)
(* value v and the bytes left, "err" (a binrw error: eof TRUE when the     *)
(* input ran out), or "panic" (the unwrap of String::from_utf8).           *)

\* u8, and the cast `as u8`
WriteU8(x) == <<x % 256>>

\* u32 and i32, little-endian (two's complement: \div and % round down)
WriteLE32(x) == <<x % 256, (x \div 256) % 256, (x \div 65536) % 256, (x \div 16777216) % 256>>

\* the u32 fields of the inputs stay below 2^31
ReadU32(b) == b[1] + 256 * b[2] + 65536 * b[3] + 16777216 * b[4]

ReadI32(b) ==
    b[1] + 256 * b[2] + 65536 * b[3] + 16777216 * (IF b[4] >= 128 THEN b[4] - 256 ELSE b[4])

Drop(b, n) == SubSeq(b, n + 1, Len(b))

Ok(v, rest) == [result |-> "ok", v |-> v, rest |-> rest, eof |-> FALSE]
Err(eof) == [result |-> "err", v |-> <<>>, rest |-> <<>>, eof |-> eof]
Panic == [result |-> "panic", v |-> <<>>, rest |-> <<>>, eof |-> FALSE]

\* byte i of b is a continuation byte of UTF-8
Cont(b, i) == i <= Len(b) /\ b[i] >= 128 /\ b[i] <= 191

\* byte 2 of b lies in lo..hi
Second(b, lo, hi) == Len(b) >= 2 /\ b[2] >= lo /\ b[2] <= hi

\* the number of bytes of the well-formed UTF-8 sequence b starts with, 0
\* when it starts with none (no overlong form, no surrogate, at most U+10FFFF)
Utf8Len(b) ==
    LET c == b[1]
    IN  IF c <= 127 THEN 1
        ELSE IF c >= 194 /\ c <= 223 /\ Cont(b, 2) THEN 2
        ELSE IF /\ \/ c = 224 /\ Second(b, 160, 191)
                   \/ c >= 225 /\ c <= 236 /\ Cont(b, 2)
                   \/ c = 237 /\ Second(b, 128, 159)
                   \/ c >= 238 /\ c <= 239 /\ Cont(b, 2)
                /\ Cont(b, 3)
             THEN 3
        ELSE IF /\ \/ c = 240 /\ Second(b, 144, 191)
                   \/ c >= 241 /\ c <= 243 /\ Cont(b, 2)
                   \/ c = 244 /\ Second(b, 128, 143)
                /\ Cont(b, 3) /\ Cont(b, 4)
             THEN 4
        ELSE 0

\* String::from_utf8(x).is_ok(): x is well-formed UTF-8.  Every byte that
\* is no continuation byte starts a well-formed sequence, and the
\* continuation bytes are those of these sequences and no others.
ValidUtf8(b) ==
    /\ ~Cont(b, 1)
    /\ \A i \in 1..Len(b) :
          ~Cont(b, i) =>
              /\ Utf8Len(Drop(b, i - 1)) > 0
              /\ ~Cont(b, i + Utf8Len(Drop(b, i - 1)))

\* #[br(count = n, map = |x: Vec<u8>| String::from_utf8(x).unwrap())]
ReadString(b, n) ==
    IF Len(b) < n THEN Err(TRUE)
    ELSE IF ~ValidUtf8(SubSeq(b, 1, n)) THEN Panic
    ELSE Ok(SubSeq(b, 1, n), Drop(b, n))

\* #[derive(BinRead)] enum KeyDataValue: magic 0 is String, magic 4 is Hash
ReadKeyDataValue(b) ==
    IF b = <<>> THEN Err(TRUE)
    ELSE IF b[1] = 0 THEN
        IF Len(b) < 5 THEN Err(TRUE)
        ELSE LET length == ReadU32(Drop(b, 1))
                 string == ReadString(Drop(b, 5), length)
             IN  IF string.result # "ok" THEN string
                 ELSE Ok([tag |-> "String", length |-> length, string |-> string.v, hash |-> 0],
                         string.rest)
    ELSE IF b[1] = 4 THEN
        IF Len(b) < 5 THEN Err(TRUE) ELSE Ok(Hash(ReadI32(Drop(b, 1))), Drop(b, 5))
    ELSE Err(FALSE)

\* impl BinWrite for KeyDataValue
WriteKeyDataValue(key) ==
    IF key.tag = "Hash" THEN <<4>> \o WriteLE32(key.hash)
    ELSE <<0>> \o WriteLE32(Len(key.string)) \o key.string

ReadU32s(b, count) ==
    IF Len(b) < 4 * count THEN Err(TRUE)
    ELSE Ok([i \in 1..count |-> ReadU32(Drop(b, 4 * (i - 1)))], Drop(b, 4 * count))

\* #[derive(BinRead, BinWrite)] struct BucketEntry
ReadBucketEntry(b) ==
    IF Len(b) < 8 THEN Err(TRUE)
    ELSE LET indices == ReadU32s(Drop(b, 8), ReadU32(Drop(b, 4)))
         IN  IF indices.result # "ok" THEN indices
             ELSE Ok(BucketEntry(ReadU32(b), ReadU32(Drop(b, 4)), indices.v), indices.rest)

WriteBucketEntry(bucket) ==
    WriteLE32(bucket.key_data_offset) \o WriteLE32(bucket.count)
        \o Concat([i \in 1..Len(bucket.indices) |-> WriteLE32(bucket.indices[i])])

\* #[derive(BinRead, BinWrite)] struct EntryValue
ReadEntryValue(b) ==
    IF Len(b) < 28 THEN Err(TRUE)
    ELSE Ok(EntryValue(ReadU32(b), ReadU32(Drop(b, 4)), ReadI32(Drop(b, 8)),
                       ReadI32(Drop(b, 12)), ReadI32(Drop(b, 16)), ReadI32(Drop(b, 20)),
                       ReadI32(Drop(b, 24))),
            Drop(b, 28))

WriteEntryValue(entry) ==
    WriteLE32(entry.internal_id) \o WriteLE32(entry.provider_index)
        \o WriteLE32(entry.dependency_key_idx) \o WriteLE32(entry.dependency_hash)
        \o WriteLE32(entry.data_index) \o WriteLE32(entry.primary_key)
        \o WriteLE32(entry.resource_type)

\* a length field and the text read with #[br(count = length)]
Sized(length, string) ==
    IF string.result # "ok" THEN string
    ELSE Ok([length |-> length, text |-> string.v], string.rest)

\* assembly_name_len and assembly_name, class_name_len and class_name
ReadName(b) ==
    IF b = <<>> THEN Err(TRUE) ELSE Sized(b[1], ReadString(Tail(b), b[1]))

\* json_len and json_text (json_len is not negative in the inputs)
ReadJson(b) ==
    IF Len(b) < 4 THEN Err(TRUE) ELSE Sized(ReadI32(b), ReadString(Drop(b, 4), ReadI32(b)))

\* the record, once its last field is read
ReadExtraEnd(key_type, assembly_name, class_name, json_text) ==
    IF json_text.result # "ok" THEN json_text
    ELSE Ok([key_type |-> key_type,
             assembly_name_len |-> assembly_name.length,
             assembly_name |-> assembly_name.text,
             class_name_len |-> class_name.length, class_name |-> class_name.text,
             json_len |-> json_text.v.length, json_text |-> json_text.v.text],
            json_text.rest)

\* the fields after class_name
ReadExtraJson(key_type, assembly_name, class_name) ==
    IF class_name.result # "ok" THEN class_name
    ELSE ReadExtraEnd(key_type, assembly_name, class_name.v, ReadJson(class_name.rest))

\* the fields after assembly_name
ReadExtraClass(key_type, assembly_name) ==
    IF assembly_name.result # "ok" THEN assembly_name
    ELSE ReadExtraJson(key_type, assembly_name.v, ReadName(assembly_name.rest))

\* #[derive(BinRead)] struct ExtraValue: the fields are read in order, the
\* first failure is the result; the tag is read and not looked at
ReadExtraValue(b) ==
    IF b = <<>> THEN Err(TRUE) ELSE ReadExtraClass(b[1], ReadName(Tail(b)))

\* impl BinWrite for ExtraValue: the tag written is 7, the lengths written
\* are those of the strings
WriteExtraValue(extra) ==
    <<7>> \o WriteU8(Len(extra.assembly_name)) \o extra.assembly_name
          \o WriteU8(Len(extra.class_name)) \o extra.class_name
          \o WriteLE32(Len(extra.json_text)) \o extra.json_text

\* one record of a counted table
ReadRecord(kind, b) ==
    CASE kind = "Key" -> ReadKeyDataValue(b)
      [] kind = "Bucket" -> ReadBucketEntry(b)
      [] kind = "Entry" -> ReadEntryValue(b)

\* a Vec of count records: #[br(count = count)]
RECURSIVE ReadRecords(_, _, _)
ReadRecords(kind, b, count) ==
    IF count = 0 THEN Ok(<<>>, b)
    ELSE LET first == ReadRecord(kind, b)
             others == ReadRecords(kind, first.rest, count - 1)
         IN  IF first.result # "ok" THEN first
             ELSE IF others.result # "ok" THEN others
             ELSE Ok(<<first.v>> \o others.v, others.rest)

\* struct { count: u32, #[br(count = count)] entries }
ReadTable(kind, b) ==
    IF Len(b) < 4 THEN Err(TRUE)
    ELSE LET count == ReadU32(b)
             entries == ReadRecords(kind, Drop(b, 4), count)
         IN  IF entries.result # "ok" THEN entries
             ELSE Ok([count |-> count, entries |-> entries.v], entries.rest)

\* #[br(parse_with = until_eof)]: records are read until a read fails; a
\* failure for want of input ends the table, any other is the result
UntilEof(first, others) ==
    IF first.result = "panic" THEN Panic
    ELSE IF first.result = "err" THEN (IF first.eof THEN Ok(<<>>, <<>>) ELSE first)
    ELSE IF others.result # "ok" THEN others
    ELSE Ok(<<first.v>> \o others.v, <<>>)

RECURSIVE ReadUntilEof(_)
ReadUntilEof(b) == UntilEof(ReadExtraValue(b), ReadUntilEof(ReadExtraValue(b).rest))

WriteRecord(kind, record) ==
    CASE kind = "Key" -> WriteKeyDataValue(record)
      [] kind = "Bucket" -> WriteBucketEntry(record)
      [] kind = "Entry" -> WriteEntryValue(record)
      [] kind = "Extra" -> WriteExtraValue(record)

\* the Vec of a table, record after record
WriteRecords(kind, entries) ==
    Concat([i \in 1..Len(entries) |-> WriteRecord(kind, entries[i])])

\* T::read_le_args of deserialize_catalog_table, for each of the four tables
decode(kind, b) ==
    LET entries == ReadUntilEof(b)
        read == IF kind # "Extra" THEN ReadTable(kind, b)
                ELSE IF entries.result # "ok" THEN entries
                ELSE Ok([entries |-> entries.v], <<>>)
    IN  [result |-> read.result, v |-> read.v]

\* v.write_le_args of serialize_catalog_table
encode(kind, table) ==
    IF kind = "Extra" THEN WriteRecords(kind, table.entries)
    ELSE WriteLE32(table.count) \o WriteRecords(kind, table.entries)

----------------------------------------------------------------------------
(* catalog.rs: the Catalog value and its read-only methods.  c is a record *)
(* of the five tables; Self is the catalog the variables hold.             *)

Self == [m_InternalIds |-> m_InternalIds, m_KeyDataString |-> m_KeyDataString,
         m_BucketDataString |-> m_BucketDataString,
         m_EntryDataString |-> m_EntryDataString,
         m_ExtraDataString |-> m_ExtraDataString]

\* Iterator::position: the first match, 0-based; hits[i] tells whether
\* element i matches
Position(hits) ==
    IF \E i \in 1..Len(hits) : hits[i]
    THEN Some((CHOOSE i \in 1..Len(hits) : hits[i] /\ \A j \in 1..(i - 1) : ~hits[j]) - 1)
    ELSE None

get_internal_id_index(c, internal_id) ==
    Position([i \in 1..Len(c.m_InternalIds) |-> c.m_InternalIds[i] = internal_id])

get_key(c, id) == VecGet(c.m_KeyDataString.entries, id)

get_bucket(c, id) == VecGet(c.m_BucketDataString.entries, id)

get_entry(c, id) == VecGet(c.m_EntryDataString.entries, id)

get_entry_id_by_internal_id(c, id) ==
    Position([i \in 1..Len(c.m_EntryDataString.entries) |->
                 c.m_EntryDataString.entries[i].internal_id = id])

get_entry_by_internal_id(c, id) ==
    LET p == get_entry_id_by_internal_id(c, id)
    IN  IF p.some THEN Some(c.m_EntryDataString.entries[p.v + 1]) ELSE None

get_extra(c, id) == VecGet(c.m_ExtraDataString.entries, id)

get_dependencies_primary(c, entry) ==
    LET b == get_bucket(c, entry.primary_key)
    IN  IF b.some THEN Some(b.v.indices) ELSE None

get_dependencies(c, entry) ==
    LET b == get_bucket(c, entry.dependency_key_idx)
    IN  IF b.some THEN Some(b.v.indices) ELSE None

get_next_key_offset_first(c) ==
    IF c.m_BucketDataString.entries = <<>> \/ c.m_KeyDataString.entries = <<>>
    THEN [panic |-> TRUE, v |-> 0]
    ELSE [panic |-> FALSE,
          v |-> Head(c.m_BucketDataString.entries).key_data_offset
                    + get_size(Last(c.m_KeyDataString.entries))]

\* Option::unwrap of last() on an empty Vec panics
get_next_key_offset(c) ==
    IF c.m_BucketDataString.entries = <<>> \/ c.m_KeyDataString.entries = <<>>
    THEN [panic |-> TRUE, v |-> 0]
    ELSE [panic |-> FALSE,
          v |-> Last(c.m_BucketDataString.entries).key_data_offset
                    + get_size(Last(c.m_KeyDataString.entries))]

RECURSIVE SumSizes(_)
SumSizes(extras) ==
    IF extras = <<>> THEN 0 ELSE extra_get_size(Head(extras)) + SumSizes(Tail(extras))

get_next_extra_offset(c) == SumSizes(c.m_ExtraDataString.entries)

\* the HashKey values of the Key Table (the iterator of get_unique_hash)
HashKeys(c) ==
    {c.m_KeyDataString.entries[i].hash :
        i \in {j \in 1..Len(c.m_KeyDataString.entries) :
                  c.m_KeyDataString.entries[j].tag = "Hash"}}

get_unique_hash_first(c, draws) == [returns |-> TRUE, v |-> Head(draws)]

\* draws: the values rng.gen() yields, in order.  The loop redraws while the
\* value equals a HashKey; it has not returned when the draws run out.
RECURSIVE get_unique_hash(_, _)
get_unique_hash(c, draws) ==
    IF draws = <<>> THEN [returns |-> FALSE, v |-> 0]
    ELSE IF Head(draws) \in HashKeys(c) THEN get_unique_hash(c, Tail(draws))
    ELSE [returns |-> TRUE, v |-> Head(draws)]

----------------------------------------------------------------------------
(* catalog.rs: the mutating methods.  Each yields the catalog it leaves,   *)
(* whether it panicked, and what it returned: ok/err for a Result, v for   *)
(* the value (an id, or 0 when the method returns ()).                     *)

Returned(c, v) ==
    [cat |-> c, panic |-> FALSE, spins |-> FALSE, ok |-> TRUE, v |-> v, err |-> ""]
Failed(c, err) ==
    [cat |-> c, panic |-> FALSE, spins |-> FALSE, ok |-> FALSE, v |-> 0, err |-> err]
Panicked(c) ==
    [cat |-> c, panic |-> TRUE, spins |-> FALSE, ok |-> FALSE, v |-> 0, err |-> "panic"]
\* the call is still in the loop of get_unique_hash when the draws run out
Spinning(c) ==
    [cat |-> c, panic |-> FALSE, spins |-> TRUE, ok |-> FALSE, v |-> 0, err |-> "spins"]

add_internalid_unchecked(c, internal_id) ==
    Returned([c EXCEPT !.m_InternalIds = Append(@, internal_id)], Len(c.m_InternalIds))

add_internalid(c, internal_id) ==
    IF ~get_internal_id_index(c, internal_id).some
    THEN LET pushed == [c EXCEPT !.m_InternalIds = Append(@, internal_id)]
         IN  Returned(pushed, Len(pushed.m_InternalIds) - 1)
    ELSE Failed(c, "DuplicateInternalId")

\* the two pushes shared by add_key and add_dependency_key
PushKey(c, key, bucket) ==
    [c EXCEPT !.m_KeyDataString = [count |-> @.count + 1, entries |-> Append(@.entries, key)],
              !.m_BucketDataString = [count |-> @.count + 1, entries |-> Append(@.entries, bucket)]]

add_key_seeds_key_count(c, key) ==
    LET key_data_offset == get_next_key_offset(c)
        pushed == PushKey(c, key,
                      BucketEntry(key_data_offset.v, 1, <<Len(c.m_KeyDataString.entries)>>))
    IN  IF key_data_offset.panic THEN Panicked(c)
        ELSE Returned(pushed, pushed.m_KeyDataString.count - 1)

add_key_no_bucket(c, key) ==
    LET key_data_offset == get_next_key_offset(c)
        pushed == [c EXCEPT !.m_KeyDataString =
                      [count |-> @.count + 1, entries |-> Append(@.entries, key)]]
    IN  IF key_data_offset.panic THEN Panicked(c)
        ELSE Returned(pushed, pushed.m_KeyDataString.count - 1)

add_key(c, key) ==
    LET key_data_offset == get_next_key_offset(c)
        pushed == PushKey(c, key,
                      BucketEntry(key_data_offset.v, 1, <<Len(c.m_EntryDataString.entries)>>))
    IN  IF key_data_offset.panic THEN Panicked(c)
        ELSE Returned(pushed, pushed.m_KeyDataString.count - 1)

add_dependency_key_count(c, key, dependencies) ==
    LET key_data_offset == get_next_key_offset(c)
        pushed == PushKey(c, key,
                      BucketEntry(key_data_offset.v, Len(dependencies), dependencies))
    IN  IF key_data_offset.panic THEN Panicked(c)
        ELSE Returned(pushed, pushed.m_KeyDataString.count)

add_dependency_key(c, key, dependencies) ==
    LET key_data_offset == get_next_key_offset(c)
        pushed == PushKey(c, key,
                      BucketEntry(key_data_offset.v, Len(dependencies), dependencies))
    IN  IF key_data_offset.panic THEN Panicked(c)
        ELSE Returned(pushed, pushed.m_KeyDataString.count - 1)

add_extra_data_index(c, extra) ==
    Returned([c EXCEPT !.m_ExtraDataString = [entries |-> Append(@.entries, extra)]],
             Len(c.m_ExtraDataString.entries))

add_extra_data(c, extra) ==
    LET offset == get_next_extra_offset(c)
    IN  Returned([c EXCEPT !.m_ExtraDataString = [entries |-> Append(@.entries, extra)]],
                 offset)

PushEntry_front(c, new_entry) ==
    [c EXCEPT !.m_EntryDataString =
        [count |-> @.count + 1, entries |-> <<new_entry>> \o @.entries]]

PushEntry(c, new_entry) ==
    [c EXCEPT !.m_EntryDataString =
        [count |-> @.count + 1, entries |-> Append(@.entries, new_entry)]]

add_bundle_reusing(c, internal_id, key, extra) ==
    LET iid == IF get_internal_id_index(c, internal_id).some
               THEN Returned(c, get_internal_id_index(c, internal_id).v)
               ELSE add_internalid(c, internal_id)
        primary_key == add_key(iid.cat, from_string(key))
        data_index == add_extra_data(primary_key.cat, extra)
        new_entry == EntryValue(iid.v, 0, -1, 0, data_index.v, primary_key.v, 0)
    IN  IF primary_key.panic THEN Panicked(primary_key.cat)
        ELSE Returned(PushEntry(data_index.cat, new_entry), 0)

add_bundle(c, internal_id, key, extra) ==
    LET iid == add_internalid(c, internal_id)
        primary_key == add_key(iid.cat, from_string(key))
        data_index == add_extra_data(primary_key.cat, extra)
        new_entry == EntryValue(iid.v, 0, -1, 0, data_index.v, primary_key.v, 0)
    IN  IF ~iid.ok THEN Failed(iid.cat, iid.err)
        ELSE IF primary_key.panic THEN Panicked(primary_key.cat)
        ELSE Returned(PushEntry(data_index.cat, new_entry), 0)

\* dependencies.iter().flat_map(get_internal_id_index).flat_map(get_entry_id_by_internal_id)
ResolveDependency(c, dep) ==
    LET id == get_internal_id_index(c, dep)
    IN  IF id.some THEN get_entry_id_by_internal_id(c, id.v) ELSE None

ResolveDependencies_kept(c, dependencies) ==
    [k \in 1..Len(dependencies) |->
        IF ResolveDependency(c, dependencies[k]).some
        THEN ResolveDependency(c, dependencies[k]).v ELSE 0]

ResolveDependencies_reversed(c, dependencies) ==
    LET found == SelectSeq(dependencies, LAMBDA dep : ResolveDependency(c, dep).some)
    IN  [k \in 1..Len(found) |-> ResolveDependency(c, found[Len(found) + 1 - k]).v]

ResolveDependencies(c, dependencies) ==
    LET found == SelectSeq(dependencies, LAMBDA dep : ResolveDependency(c, dep).some)
    IN  [k \in 1..Len(found) |-> ResolveDependency(c, found[k]).v]

add_prefab_entry_first(c, internal_id, key, dependencies, draws) ==
    LET iid == add_internalid(c, internal_id)
        primary_key == add_key(iid.cat, from_string(key))
        unique == get_unique_hash(primary_key.cat, draws)
        next_key == Len(primary_key.cat.m_KeyDataString.entries)
        new_entry == EntryValue(iid.v, 2, next_key, unique.v, -1, primary_key.v, 4)
        entered == PushEntry(primary_key.cat, new_entry)
        indices == ResolveDependencies(entered, dependencies)
        dependency_key_idx == add_dependency_key(entered, Hash(unique.v), indices)
    IN  IF ~iid.ok THEN Failed(iid.cat, iid.err)
        ELSE IF primary_key.panic THEN Panicked(primary_key.cat)
        ELSE IF ~unique.returns THEN Spinning(primary_key.cat)
        ELSE Returned(dependency_key_idx.cat, 0)

add_prefab_redraws(c, internal_id, key, dependencies, draws) ==
    LET iid == add_internalid(c, internal_id)
        primary_key == add_key(iid.cat, from_string(key))
        unique == get_unique_hash(primary_key.cat, draws)
        indices == ResolveDependencies(primary_key.cat, dependencies)
        dependency_key_idx == add_dependency_key(primary_key.cat, Hash(unique.v), indices)
        new_entry == EntryValue(iid.v, 2, dependency_key_idx.v, Head(draws), -1, primary_key.v, 4)
    IN  IF ~iid.ok THEN Failed(iid.cat, iid.err)
        ELSE IF primary_key.panic THEN Panicked(primary_key.cat)
        ELSE IF ~unique.returns THEN Spinning(primary_key.cat)
        ELSE Returned(PushEntry(dependency_key_idx.cat, new_entry), 0)

\* draws: the values the random source yields to get_unique_hash
add_prefab(c, internal_id, key, dependencies, draws) ==
    LET iid == add_internalid(c, internal_id)
        primary_key == add_key(iid.cat, from_string(key))
        unique == get_unique_hash(primary_key.cat, draws)
        hash == unique.v
        indices == ResolveDependencies(primary_key.cat, dependencies)
        dependency_key_idx == add_dependency_key(primary_key.cat, Hash(hash), indices)
        new_entry == EntryValue(iid.v, 2, dependency_key_idx.v, hash, -1, primary_key.v, 4)
    IN  IF ~iid.ok THEN Failed(iid.cat, iid.err)
        ELSE IF primary_key.panic THEN Panicked(primary_key.cat)
        ELSE IF ~unique.returns THEN Spinning(primary_key.cat)
        ELSE Returned(PushEntry(dependency_key_idx.cat, new_entry), 0)

----------------------------------------------------------------------------
(* main.rs: recursive_deps.  depth counts the nested calls; past           *)
(* StackDepth the recursion is reported as not returning (overflow).       *)

\* the inputs and their direct dependencies only
recursive_deps_direct(c, entries, depth) ==
    LET DepsOf(id) == LET entry == get_entry(c, id)
                      IN  IF entry.some THEN get_dependencies(c, entry.v) ELSE None
        sets == SelectSeq([i \in 1..Len(entries) |-> DepsOf(entries[i])], LAMBDA o : o.some)
    IN  [overflow |-> FALSE, v |-> entries \o Concat([i \in 1..Len(sets) |-> sets[i].v])]

RECURSIVE recursive_deps(_, _, _)
recursive_deps(c, entries, depth) ==
    LET DepsOf(id) == LET entry == get_entry(c, id)
                      IN  IF entry.some THEN get_dependencies(c, entry.v) ELSE None
        sets == SelectSeq([i \in 1..Len(entries) |-> DepsOf(entries[i])], LAMBDA o : o.some)
        deps == [i \in 1..Len(sets) |-> recursive_deps(c, sets[i].v, depth + 1)]
    IN  IF depth > StackDepth THEN [overflow |-> TRUE, v |-> <<>>]
        ELSE [overflow |-> \E i \in 1..Len(deps) : deps[i].overflow,
              v |-> entries \o Concat([i \in 1..Len(deps) |-> deps[i].v])]

----------------------------------------------------------------------------
(* The catalogs a run starts from (Catalog::open), and the arguments of    *)
(* the calls.                                                              *)

StrA == <<97>>
StrB == <<98>>
StrC == <<99, 100>>
Names == {StrA, StrB, StrC}
\* the names given as dependencies
DepNames == {StrA, StrB}

KeyK == <<107>>
KeyP == <<112, 113>>

\* the keys and dependency lists handed to add_key and add_dependency_key
KeyInputs == {from_string(KeyP), Hash(0)}
DepInputs == {<<1, 0>>}

ExtraAB == ExtraValue(7, <<65>>, <<66>>, <<>>)
ExtraJson == ExtraValue(7, <<65>>, <<>>, <<123, 125>>)
Extras == {ExtraAB, ExtraJson}

\* the values the random source is made to yield: 1 is a HashKey of PrefabCatalog
HashVals == {0, 1}
AllDraws == SeqsUpTo(HashVals, MaxDraws) \ {<<>>}
EntryIds == 0..MaxEntries

Table(entries) == [count |-> Len(entries), entries |-> entries]

Catalog(ids, keys, buckets, entries, extras) ==
    [m_InternalIds |-> ids, m_KeyDataString |-> Table(keys),
     m_BucketDataString |-> Table(buckets), m_EntryDataString |-> Table(entries),
     m_ExtraDataString |-> [entries |-> extras]]

\* no table holds a record
EmptyCatalog == Catalog(<<>>, <<>>, <<>>, <<>>, <<>>)

\* one bundle: id 0, key 0, entry 0
BundleCatalog ==
    Catalog(<<StrA>>,
            <<from_string(KeyK)>>,
            <<BucketEntry(4, 1, <<0>>)>>,
            <<EntryValue(0, 0, -1, 0, 0, 0, 0)>>,
            <<ExtraAB>>)

\* the bundle, and a prefab (entry 1) that depends on it through hash key 2
PrefabCatalog ==
    Catalog(<<StrA, StrB>>,
            <<from_string(KeyK), from_string(KeyP), Hash(1)>>,
            <<BucketEntry(4, 1, <<0>>), BucketEntry(10, 1, <<1>>), BucketEntry(17, 1, <<0>>)>>,
            <<EntryValue(0, 0, -1, 0, 0, 0, 0), EntryValue(1, 2, 2, 1, -1, 1, 4)>>,
            <<ExtraAB>>)

LoadedCatalogs == {EmptyCatalog, BundleCatalog, PrefabCatalog}

WithinBounds(c) ==
    /\ Len(c.m_InternalIds) <= MaxIds
    /\ Len(c.m_EntryDataString.entries) <= MaxEntries
    /\ Len(c.m_ExtraDataString.entries) <= MaxExtras

NoCall == [op |-> "open", id |-> <<>>, key |-> <<>>, deps |-> <<>>,
           ok |-> TRUE, err |-> "", val |-> <<>>]

Idle == [op |-> "idle", kind |-> "", table |-> <<>>, bytes |-> <<>>,
         decoded |-> [result |-> "none", v |-> <<>>]]

----------------------------------------------------------------------------
(* The calls on the loaded catalog *)

Load(c) ==
    /\ m_InternalIds = c.m_InternalIds
    /\ m_KeyDataString = c.m_KeyDataString
    /\ m_BucketDataString = c.m_BucketDataString
    /\ m_EntryDataString = c.m_EntryDataString
    /\ m_ExtraDataString = c.m_ExtraDataString

\* the calls that only read the catalog
QueryOps == {"get_next_key_offset", "get_unique_hash", "recursive_deps",
             "get_key", "get_bucket", "get_extra", "get_dependencies"}

\* A run is followed while the process lives, and up to its first query: a
\* query leaves the catalog as it is, so every catalog reachable after it is
\* reachable without it.
Running == ~aborted /\ ret.op \notin QueryOps

\* The catalog a mutating call leaves, and its outcome.  ret keeps the
\* arguments the call has read: one that fails on the internal id returns
\* before it reads its key and its dependencies.
Leave(op, id, key, deps, res) ==
    /\ ~res.spins
    /\ WithinBounds(res.cat)
    /\ m_InternalIds' = res.cat.m_InternalIds
    /\ m_KeyDataString' = res.cat.m_KeyDataString
    /\ m_BucketDataString' = res.cat.m_BucketDataString
    /\ m_EntryDataString' = res.cat.m_EntryDataString
    /\ m_ExtraDataString' = res.cat.m_ExtraDataString
    /\ ret' = [op |-> op, id |-> id,
               key |-> IF res.err = "DuplicateInternalId" THEN <<>> ELSE key,
               deps |-> IF res.err = "DuplicateInternalId" THEN <<>> ELSE deps,
               ok |-> res.ok, err |-> res.err, val |-> <<res.v>>]
    /\ aborted' = res.panic
    /\ UNCHANGED io

\* the outcome of a call that reads the catalog only
Answer(op, deps, panic, val) ==
    /\ ret' = [op |-> op, id |-> <<>>, key |-> <<>>, deps |-> deps,
               ok |-> ~panic, err |-> IF panic THEN "panic" ELSE "", val |-> val]
    /\ aborted' = panic
    /\ UNCHANGED <<catalogVars, io>>

AddInternalId ==
    \E s \in Names :
        Running /\ Leave("add_internalid", s, <<>>, <<>>, add_internalid(Self, s))

AddKey ==
    \E key \in KeyInputs :
        Running /\ Len(m_KeyDataString.entries) < MaxKeys /\
        Leave("add_key", <<>>, key.string, <<>>, add_key(Self, key))

AddDependencyKey ==
    \E key \in KeyInputs, dependencies \in DepInputs :
        Running /\ Len(m_KeyDataString.entries) < MaxKeys /\
        Leave("add_dependency_key", <<>>, key.string, dependencies,
              add_dependency_key(Self, key, dependencies))

AddExtraData ==
    \E extra \in {ExtraJson} :
        Running /\ Leave("add_extra_data", <<>>, <<>>, <<>>, add_extra_data(Self, extra))

AddBundle ==
    \E internal_id \in Names, key \in {KeyP}, extra \in {ExtraAB} :
        Running /\
        Leave("add_bundle", internal_id, key, <<>>, add_bundle(Self, internal_id, key, extra))

\* DepLists: the dependency lists tried; DrawLists: the random draws tried
AddPrefab(DepLists, DrawLists) ==
    \E internal_id \in Names, key \in {KeyK}, dependencies \in DepLists, draws \in DrawLists :
        Running /\
        Leave("add_prefab", internal_id, key, dependencies,
              add_prefab(Self, internal_id, key, dependencies, draws))

GetNextKeyOffset ==
    LET r == get_next_key_offset(Self)
    IN  Running /\ Answer("get_next_key_offset", <<>>, r.panic, <<r.v>>)

GetUniqueHash ==
    \E draws \in AllDraws :
        LET r == get_unique_hash(Self, draws)
        IN  Running /\ r.returns /\ Answer("get_unique_hash", <<>>, FALSE, <<r.v>>)

RecursiveDeps ==
    \E entries \in SeqsUpTo(EntryIds, MaxDeps) :
        LET r == recursive_deps(Self, entries, 0)
        IN  Running /\ Answer("recursive_deps", entries, r.overflow, r.v)

Init ==
    /\ \E c \in LoadedCatalogs : Load(c)
    /\ ret = NoCall
    /\ aborted = FALSE
    /\ io = Idle

\* The tool's use of the catalog: bundles and prefabs are added, then queried.
Next ==
    \/ AddBundle
    \/ AddPrefab(SeqsUpTo(DepNames, MaxDeps), AllDraws)
    \/ GetNextKeyOffset
    \/ GetUniqueHash
    \/ RecursiveDeps

Spec == Init /\ [][Next]_vars

\* The table-level methods, called in any order between bundles and prefabs.
NextTables ==
    \/ AddInternalId
    \/ AddKey
    \/ AddDependencyKey
    \/ AddExtraData
    \/ AddBundle
    \/ AddPrefab({<<>>, <<StrA>>}, {<<0>>, <<1, 0>>})
    \/ GetNextKeyOffset

SpecTables == Init /\ [][NextTables]_vars

----------------------------------------------------------------------------
(* Properties of the tables *)

IsPrefix(s, t) == Len(s) <= Len(t) /\ SubSeq(t, 1, Len(s)) = s

InRegistry(s) == \E i \in 1..Len(m_InternalIds) : m_InternalIds[i] = s

\* the byte size of a key record: tag, then length and text, or a 4-byte hash
KeySize(key) == IF key.tag = "String" THEN Len(key.string) + 5 ELSE 5

RECURSIVE SumKeySizes(_)
SumKeySizes(keys) == IF keys = <<>> THEN 0 ELSE KeySize(Head(keys)) + SumKeySizes(Tail(keys))

KeysBucketsParallel == Len(m_KeyDataString.entries) = Len(m_BucketDataString.entries)

\* what one step appends: as many buckets as keys, after the records that were
\* there, bucket i at the byte offset of key i
AppendedTogether ==
    /\ KeysBucketsParallel'
    /\ IsPrefix(m_KeyDataString.entries, m_KeyDataString'.entries)
    /\ IsPrefix(m_BucketDataString.entries, m_BucketDataString'.entries)
    /\ \A i \in (Len(m_KeyDataString.entries) + 1)..Len(m_KeyDataString'.entries) :
          /\ i > 1
          /\ m_BucketDataString'.entries[i].key_data_offset =
                m_BucketDataString'.entries[i - 1].key_data_offset
                    + KeySize(m_KeyDataString'.entries[i - 1])

\* C1: from a loaded catalog whose Key Table and Bucket Table have equal
\* length, every add_key, add_dependency_key, add_bundle and add_prefab call,
\* successful or failing, leaves the two tables equally long, and the buckets
\* it appends are appended together with the keys of the same positions.
C1_KeyBucketParallel == KeysBucketsParallel /\ [][AppendedTogether]_vars

\* add_prefab has appended two keys and two buckets to a loaded table
C1_Witness ==
    /\ ret.op = "add_prefab" /\ ret.ok
    /\ Len(m_KeyDataString.entries) >= 3
    /\ Len(m_BucketDataString.entries) = Len(m_KeyDataString.entries)

\* C2: add_internalid(s) of a string not in the registry returns Ok(id), id
\* the position of s in the registry, which has grown by s alone; of a string
\* in the registry it returns Err(DuplicateInternalId) and leaves the registry
\* unchanged; so two calls with s in a row are Ok then Err, one entry longer.
C2_AddInternalIdTwice ==
    [][/\ ret'.op = "add_internalid" =>
            IF ~InRegistry(ret'.id)
            THEN /\ ret'.ok
                 /\ m_InternalIds' = Append(m_InternalIds, ret'.id)
                 /\ ret'.val = <<Len(m_InternalIds)>>
                 /\ m_InternalIds'[ret'.val[1] + 1] = ret'.id
            ELSE /\ ~ret'.ok
                 /\ ret'.err = "DuplicateInternalId"
                 /\ m_InternalIds' = m_InternalIds
       /\ (ret.op = "add_internalid" /\ ret.ok
              /\ ret'.op = "add_internalid" /\ ret'.id = ret.id) =>
            /\ ~ret'.ok
            /\ ret'.err = "DuplicateInternalId"
            /\ Len(m_InternalIds') = Len(m_InternalIds)
            /\ m_InternalIds'[ret.val[1] + 1] = ret.id]_vars

\* add_internalid(StrC) has failed; StrC is in no loaded catalog and no entry
\* owns it, so an earlier add_internalid(StrC) has put it in the registry
C2_Witness ==
    /\ ret.op = "add_internalid" /\ ~ret.ok /\ ret.id = StrC
    /\ InRegistry(StrC)
    /\ \A i \in 1..Len(m_EntryDataString.entries) :
          m_InternalIds[m_EntryDataString.entries[i].internal_id + 1] # StrC

\* C3: get_next_key_offset, add_key, add_dependency_key, add_bundle and
\* add_prefab return on every catalog, the one with empty tables included:
\* no call panics.
C3_NoCallPanics == ~aborted

\* C10: get_size is n + 5 for a string key of n bytes and 5 for a hash key;
\* every bucket after the first sits at the offset of the bucket before it
\* plus the size of the key before it; and get_next_key_offset() is the first
\* bucket's offset plus the sizes of all keys.
C10_KeyOffsets ==
    LET keys == m_KeyDataString.entries
        buckets == m_BucketDataString.entries
    IN  /\ \A i \in 1..Len(keys) : get_size(keys[i]) = KeySize(keys[i])
        /\ \A i \in 2..Len(buckets) :
              buckets[i].key_data_offset = buckets[i - 1].key_data_offset + KeySize(keys[i - 1])
        /\ keys # <<>> =>
              /\ ~get_next_key_offset(Self).panic
              /\ get_next_key_offset(Self).v = buckets[1].key_data_offset + SumKeySizes(keys)

\* two keys, a string key and a hash key, have been inserted after the loaded one
C10_Witness ==
    /\ ret.op \in {"add_key", "add_dependency_key"}
    /\ Len(m_KeyDataString.entries) = 3
    /\ m_KeyDataString.entries[2].tag = "String"
    /\ m_KeyDataString.entries[3].tag = "Hash"
    /\ Len(m_EntryDataString.entries) = 1

----------------------------------------------------------------------------
(* Properties of bundles, prefabs and their dependencies *)

Entries == m_EntryDataString.entries

\* the string an entry's InternalId stands for
NameOf(entry) == m_InternalIds[entry.internal_id + 1]

\* name owns one of the first n entries
HasEntryAmong(name, n) == \E i \in 1..n : NameOf(Entries[i]) = name

\* the EntryId of the first entry that name owns
FirstEntryOf(name) ==
    (CHOOSE i \in 1..Len(Entries) :
        NameOf(Entries[i]) = name /\ \A j \in 1..(i - 1) : NameOf(Entries[j]) # name) - 1

\* C6: after a successful add_bundle(id, key, extra) on a catalog with
\* non-empty key and bucket tables, get_entry_by_internal_id of id's
\* InternalId returns a record with dependency_key -1, dependency_hash 0,
\* provider_index 0 and resource_type 0, and get_dependencies of that record
\* is None.
C6_BundleHasNoDependencies ==
    (ret.op = "add_bundle" /\ ret.ok) =>
        LET iid == get_internal_id_index(Self, ret.id)
            found == get_entry_by_internal_id(Self, iid.v)
        IN  /\ iid.some
            /\ found.some
            /\ found.v.dependency_key_idx = -1
            /\ found.v.dependency_hash = 0
            /\ found.v.provider_index = 0
            /\ found.v.resource_type = 0
            /\ ~get_dependencies(Self, found.v).some

\* add_bundle has succeeded on a catalog that held keys and buckets
C6_Witness ==
    /\ ret.op = "add_bundle" /\ ret.ok
    /\ Len(m_BucketDataString.entries) >= 2
    /\ Last(Entries).internal_id = get_internal_id_index(Self, ret.id).v

\* C7: after a successful add_prefab(P, key, deps) in which every name of deps
\* owned an entry before the call, get_dependencies of P's entry is the list
\* of the EntryIds of those entries, in the order of deps; with deps = [B], B
\* added by add_bundle, it is the one EntryId of B's entry.
C7_PrefabDependencies ==
    (ret.op = "add_prefab" /\ ret.ok) =>
        LET n == Len(Entries)
            got == get_dependencies(Self, Entries[n])
        IN  (\A k \in 1..Len(ret.deps) : HasEntryAmong(ret.deps[k], n - 1)) =>
                /\ NameOf(Entries[n]) = ret.id
                /\ got.some
                /\ Len(got.v) = Len(ret.deps)
                /\ \A k \in 1..Len(ret.deps) : got.v[k] = FirstEntryOf(ret.deps[k])

\* add_bundle(StrB) made entry 1, then add_prefab(StrC, key, [StrB, StrA]):
\* the prefab depends on entry 1, then on entry 0
C7_Witness ==
    /\ ret.op = "add_prefab" /\ ret.ok
    /\ ret.id = StrC /\ ret.deps = <<StrB, StrA>>
    /\ Len(Entries) = 3
    /\ Entries[2].provider_index = 0 /\ NameOf(Entries[2]) = StrB
    /\ get_dependencies(Self, Entries[3]) = Some(<<1, 0>>)

\* C8: the value get_unique_hash returns is the value of no HashKey of the
\* Key Table; the HashKey add_prefab appends differs from every HashKey that
\* was there, so no two HashKeys of the table carry the same value.
C8_UniqueHash ==
    LET keys == m_KeyDataString.entries
        n == Len(keys)
    IN  /\ ret.op = "get_unique_hash" => ret.val[1] \notin HashKeys(Self)
        /\ (ret.op = "add_prefab" /\ ret.ok) =>
              /\ keys[n] = Hash(Last(Entries).dependency_hash)
              /\ \A i \in 1..(n - 1) : keys[i].tag = "Hash" => keys[i].hash # keys[n].hash
        /\ \A i, j \in 1..n :
              (i # j /\ keys[i].tag = "Hash" /\ keys[j].tag = "Hash") => keys[i].hash # keys[j].hash

\* add_prefab has drawn a hash for a table that held a HashKey already
C8_Witness ==
    /\ ret.op = "add_prefab" /\ ret.ok
    /\ Cardinality(HashKeys(Self)) = 2
    /\ Last(m_KeyDataString.entries).tag = "Hash"

\* the dependency set of the entry an EntryId names, if it names one that has a set
DependencySet(id) ==
    IF id < Len(Entries) /\ Entries[id + 1].dependency_key_idx >= 0
          /\ Entries[id + 1].dependency_key_idx < Len(m_BucketDataString.entries)
    THEN Some(m_BucketDataString.entries[Entries[id + 1].dependency_key_idx + 1].indices)
    ELSE None

\* C9: recursive_deps(entries) is entries, then for each entry of the input
\* that resolves and has a dependency set the expansion of that set, in input
\* order and with repetitions kept; an input that names no entry or has no
\* set is kept and not expanded; on a three-level chain all three are returned.
C9_RecursiveDeps ==
    ret.op = "recursive_deps" =>
        LET in == ret.deps
            out == ret.val
            expanded == SelectSeq(in, LAMBDA id : DependencySet(id).some)
        IN  /\ SubSeq(out, 1, Len(in)) = in
            /\ out = in \o Concat([i \in 1..Len(expanded) |->
                                    recursive_deps(Self, DependencySet(expanded[i]).v, 0).v])
            /\ expanded = <<>> => out = in
            /\ \A a, b, c \in EntryIds :
                  (/\ in = <<a>>
                   /\ DependencySet(a) = Some(<<b>>)
                   /\ DependencySet(b) = Some(<<c>>)
                   /\ ~DependencySet(c).some) => out = <<a, b, c>>

\* recursive_deps of a prefab that depends on a prefab that depends on a bundle
C9_Witness ==
    /\ ret.op = "recursive_deps"
    /\ ret.deps = <<2>>
    /\ ret.val = <<2, 1, 0>>
    /\ DependencySet(2) = Some(<<1>>) /\ DependencySet(1) = Some(<<0>>)
    /\ ~DependencySet(0).some

----------------------------------------------------------------------------
(* The codec's runs: a table is decoded from bytes (Catalog::open), or a   *)
(* table in memory is encoded and decoded again.                           *)

Kinds == {"Key", "Bucket", "Entry", "Extra"}

\* a string key of two bytes (U+00E9)
KeyAccent == from_string(<<195, 169>>)

BundleEntry == EntryValue(0, 0, -1, 0, 0, 0, 0)
PrefabEntry == EntryValue(1, 2, 2, -7, -1, 1, 4)

\* ExtraValue::default(), and a record that was read with tag 3
ExtraDefault == ExtraValue(0, <<>>, <<>>, <<>>)
ExtraTag3 == ExtraValue(3, <<65>>, <<66>>, <<>>)

\* The records of the tables in memory: those the readers, from_string and
\* default() build, whose stored lengths are the lengths of their texts.
RecordsOf(kind) ==
    CASE kind = "Key" -> {from_string(StrA), KeyAccent, Hash(0 - 2), Hash(1)}
      [] kind = "Bucket" -> {BucketEntry(4, 1, <<0>>), BucketEntry(10, 0, <<>>),
                             BucketEntry(17, 2, <<1, 0>>)}
      [] kind = "Entry" -> {BundleEntry, PrefabEntry}
      [] kind = "Extra" -> {ExtraAB, ExtraJson, ExtraDefault, ExtraTag3}

\* the tables in memory: count is the number of entries
TablesOf(kind) ==
    IF kind = "Extra"
    THEN {[entries |-> e] : e \in SeqsUpTo(RecordsOf(kind), MaxRecords)}
    ELSE {Table(e) : e \in SeqsUpTo(RecordsOf(kind), MaxRecords)}

\* the whole records of the byte inputs: well-formed ones, and for a key a
\* text that is not UTF-8 and a tag that is no variant, for an extra-data
\* record a name and a text that are not UTF-8
ChunksOf(kind) ==
    CASE kind = "Key" -> {WriteKeyDataValue(from_string(StrA)), WriteKeyDataValue(Hash(0 - 2)),
                          <<0>> \o WriteLE32(1) \o <<255>>,
                          <<9, 0, 0, 0, 0>>}
      [] kind = "Bucket" -> {WriteBucketEntry(BucketEntry(4, 1, <<0>>)),
                             WriteBucketEntry(BucketEntry(10, 2, <<1, 0>>))}
      [] kind = "Entry" -> {WriteEntryValue(BundleEntry), WriteEntryValue(PrefabEntry)}
      [] kind = "Extra" -> {WriteExtraValue(ExtraAB),
                            <<3>> \o Tail(WriteExtraValue(ExtraJson)),
                            <<7, 1, 255, 0>> \o WriteLE32(0),
                            <<7, 0, 0>> \o WriteLE32(1) \o <<192>>}

\* the end of a byte input: nothing, or a record cut short
CutsOf(kind) ==
    CASE kind = "Key" -> {<<>>, <<0>> \o WriteLE32(2) \o <<97>>, <<4, 1>>}
      [] kind = "Bucket" -> {<<>>, WriteLE32(4) \o WriteLE32(2) \o WriteLE32(0)}
      [] kind = "Entry" -> {<<>>, WriteLE32(1)}
      [] kind = "Extra" -> {<<>>, <<7, 1, 65, 1>>}

\* the byte inputs: for a counted table any count up to MaxRecords, whatever
\* the number of records that follow
BytesOf(kind) ==
    IF kind = "Extra"
    THEN {Concat(chunks) \o cut :
            chunks \in SeqsUpTo(ChunksOf(kind), MaxRecords), cut \in CutsOf(kind)}
    ELSE {WriteLE32(count) \o Concat(chunks) \o cut :
            count \in 0..MaxRecords, chunks \in SeqsUpTo(ChunksOf(kind), MaxRecords),
            cut \in CutsOf(kind)}

Ran(op, kind, table, bytes) ==
    /\ io' = [op |-> op, kind |-> kind, table |-> table, bytes |-> bytes,
              decoded |-> decode(kind, bytes)]
    /\ aborted' = (io'.decoded.result = "panic")
    /\ UNCHANGED <<catalogVars, ret>>

\* deserialize_catalog_table on the bytes of one table field
DecodeTable ==
    \E kind \in Kinds : \E bytes \in BytesOf(kind) :
        ~aborted /\ Ran("decode", kind, <<>>, bytes)

\* serialize_catalog_table, then deserialize_catalog_table on what it wrote
RoundTrip ==
    \E kind \in Kinds : \E table \in TablesOf(kind) :
        ~aborted /\ Ran("round_trip", kind, table, encode(kind, table))

InitCodec ==
    /\ Load(EmptyCatalog)
    /\ ret = NoCall
    /\ aborted = FALSE
    /\ io = Idle

NextCodec == DecodeTable \/ RoundTrip

SpecCodec == InitCodec /\ [][NextCodec]_vars

\* C4: decoding any byte sequence returns a table or a decode error, never
\* aborts: a key tag other than 0 and 4, a truncated record and string bytes
\* that are not UTF-8 each give a decode error.
C4_DecodeNeverAborts ==
    io.op = "decode" => io.decoded.result \in {"ok", "err"}

RoundTripped == io.decoded.result = "ok" /\ io.decoded.v = io.table

\* C5: decode(encode(t)) = t, field for field, for each of the four table
\* kinds and every table t in memory, whatever the tag byte of its extra-data
\* records.
C5_RoundTripAny == io.op = "round_trip" => RoundTripped

\* every extra-data record of the table carries tag 7, the tag the writer writes
TaggedJson(kind, table) ==
    kind = "Extra" => \A i \in 1..Len(table.entries) : table.entries[i].key_type = 7

\* what the codec does keep: a table whose extra-data records carry tag 7
RoundTripTaggedJson ==
    (io.op = "round_trip" /\ TaggedJson(io.kind, io.table)) => RoundTripped

----------------------------------------------------------------------------
(* The positional lookups, called with any id, the negative ones included *)

\* the KeyId and ExtraId values looked up: negative, in range, past the end
LookupIds == (0 - 2)..(2 * MaxEntries + 1)

GetKey ==
    \E id \in LookupIds :
        Running /\ Answer("get_key", <<id>>, FALSE, <<get_key(Self, id)>>)

GetBucket ==
    \E id \in LookupIds :
        Running /\ Answer("get_bucket", <<id>>, FALSE, <<get_bucket(Self, id)>>)

GetExtra ==
    \E id \in LookupIds :
        Running /\ Answer("get_extra", <<id>>, FALSE, <<get_extra(Self, id)>>)

\* get_dependencies of an entry record whose dependency_key_idx is id
GetDependencies ==
    \E id \in LookupIds :
        Running /\ Answer("get_dependencies", <<id>>, FALSE,
                          <<get_dependencies(Self, EntryValue(0, 2, id, 0, -1, 0, 4))>>)

NextLookups ==
    \/ AddBundle
    \/ AddPrefab({<<>>, <<StrA>>}, {<<0>>, <<1, 0>>})
    \/ GetKey
    \/ GetBucket
    \/ GetExtra
    \/ GetDependencies

SpecLookups == Init /\ [][NextLookups]_vars

\* what a lookup of position id in table returns when out-of-range ids are
\* "not found"
Found(table, id) ==
    IF id >= 0 /\ id < Len(table) THEN <<Some(table[id + 1])>> ELSE <<None>>

\* C11: get_dependencies(entry) is the indices list of bucket
\* entry.dependency_key exactly when 0 <= dependency_key < Bucket Table
\* length and None for every other value, the negative ones included; get_key,
\* get_bucket and get_extra of a negative or too large id are None, never
\* another position's record and never a fault.
C11_LookupsBoundsChecked ==
    LET id == ret.deps[1]
        buckets == m_BucketDataString.entries
    IN  /\ ret.op \in {"get_key", "get_bucket", "get_extra", "get_dependencies"} => ~aborted
        /\ ret.op = "get_dependencies" =>
              ret.val = (IF id >= 0 /\ id < Len(buckets)
                         THEN <<Some(buckets[id + 1].indices)>> ELSE <<None>>)
        /\ ret.op = "get_key" => ret.val = Found(m_KeyDataString.entries, id)
        /\ ret.op = "get_bucket" => ret.val = Found(buckets, id)
        /\ ret.op = "get_extra" => ret.val = Found(m_ExtraDataString.entries, id)

\* get_dependencies of an entry with dependency_key -2 on a catalog that has
\* buckets
C11_Witness ==
    /\ ret.op = "get_dependencies" /\ ret.deps = <<0 - 2>>
    /\ ret.val = <<None>>
    /\ Len(m_BucketDataString.entries) >= 3

----------------------------------------------------------------------------
(* Properties every mutation keeps *)

\* C12: from a catalog in which every entry's dependency_key is -1 or a
\* valid Bucket Table index, after any sequence of add_bundle and add_prefab
\* calls every entry's dependency_key is -1 or a valid Bucket Table index and
\* every entry's primary_key is a valid Key Table and Bucket Table index.
C12_EntryKeysValid ==
    \A i \in 1..Len(Entries) :
        /\ \/ Entries[i].dependency_key_idx = -1
           \/ /\ Entries[i].dependency_key_idx >= 0
              /\ Entries[i].dependency_key_idx < Len(m_BucketDataString.entries)
        /\ Entries[i].primary_key >= 0
        /\ Entries[i].primary_key < Len(m_KeyDataString.entries)
        /\ Entries[i].primary_key < Len(m_BucketDataString.entries)

\* add_prefab has appended a third entry, whose dependency_key is the last bucket
C12_Witness ==
    /\ ret.op = "add_prefab" /\ ret.ok
    /\ Len(Entries) = 3
    /\ Entries[3].dependency_key_idx = Len(m_BucketDataString.entries) - 1
    /\ Entries[2].dependency_key_idx = -1

\* every record of the five tables keeps its position and its fields
AppendOnly ==
    /\ IsPrefix(m_InternalIds, m_InternalIds')
    /\ IsPrefix(m_KeyDataString.entries, m_KeyDataString'.entries)
    /\ IsPrefix(m_BucketDataString.entries, m_BucketDataString'.entries)
    /\ IsPrefix(m_EntryDataString.entries, m_EntryDataString'.entries)
    /\ IsPrefix(m_ExtraDataString.entries, m_ExtraDataString'.entries)

\* C13: add_internalid, add_key, add_dependency_key, add_extra_data,
\* add_bundle and add_prefab only append: every record of the registry, the
\* Key, Bucket and Entry Tables and the Extra-Data stream keeps its position
\* and its field values, so an id obtained before a call names the same record
\* after it.
C13_AppendOnly == [][AppendOnly]_vars

\* add_prefab has appended to each table of the loaded PrefabCatalog but the
\* Extra-Data stream
C13_Witness ==
    /\ ret.op = "add_prefab" /\ ret.ok
    /\ Len(Entries) = 3 /\ Len(m_KeyDataString.entries) = 5 /\ Len(m_InternalIds) = 3
    /\ SubSeq(Entries, 1, 2) = PrefabCatalog.m_EntryDataString.entries
    /\ SubSeq(m_KeyDataString.entries, 1, 3) = PrefabCatalog.m_KeyDataString.entries

\* no string is twice in the registry and no InternalId twice in the Entry Table
IdsUnique ==
    /\ \A i, j \in 1..Len(m_InternalIds) : m_InternalIds[i] = m_InternalIds[j] => i = j
    /\ \A i, j \in 1..Len(Entries) : Entries[i].internal_id = Entries[j].internal_id => i = j

\* a call of add_bundle or add_prefab with a string of the registry fails
\* and leaves the catalog as it was
DuplicateRefused ==
    (ret'.op \in {"add_bundle", "add_prefab"} /\ InRegistry(ret'.id)) =>
        /\ ~ret'.ok
        /\ ret'.err = "DuplicateInternalId"
        /\ ~aborted'
        /\ UNCHANGED catalogVars

\* C14: add_bundle and add_prefab called with an internal id string that is
\* in the registry return Err(DuplicateInternalId) and leave the registry, the
\* Key, Bucket and Entry Tables and the Extra-Data stream as they were; so the
\* registry never holds a string twice and no two entries share an InternalId.
C14_DuplicateLeavesCatalog == []IdsUnique /\ [][DuplicateRefused]_vars

\* add_prefab has been refused for the string of an entry it had added itself
C14_Witness ==
    /\ ret.op = "add_prefab" /\ ~ret.ok /\ ret.err = "DuplicateInternalId"
    /\ InRegistry(ret.id)
    /\ Len(Entries) = 3 /\ Entries[3].provider_index = 2 /\ NameOf(Entries[3]) = ret.id

----------------------------------------------------------------------------
(* The Extra-Data stream: the ids add_extra_data hands out *)

\* a prefab without dependencies and no extra-data record: id 0, keys 0 and 1
LonePrefabCatalog ==
    Catalog(<<StrA>>,
            <<from_string(KeyK), Hash(1)>>,
            <<BucketEntry(4, 1, <<0>>), BucketEntry(10, 0, <<>>)>>,
            <<EntryValue(0, 2, 1, 1, -1, 0, 4)>>,
            <<>>)

InitExtras ==
    /\ \E c \in {EmptyCatalog, LonePrefabCatalog, BundleCatalog} : Load(c)
    /\ ret = NoCall
    /\ aborted = FALSE
    /\ io = Idle

NextExtras ==
    \/ AddExtraData
    \/ AddBundle
    \/ GetExtra

SpecExtras == InitExtras /\ [][NextExtras]_vars

\* the bytes the Extra-Data stream takes when written
StreamBytes(extras) == Len(encode("Extra", [entries |-> extras]))

\* the id returned for the record a step appends is the number of bytes of the
\* stream before the step, and names the record only if the stream was empty
IdIsByteOffset(id) ==
    /\ Len(m_ExtraDataString'.entries) = Len(m_ExtraDataString.entries) + 1
    /\ id = StreamBytes(m_ExtraDataString.entries)
    /\ (get_extra(Self', id) = Some(Last(m_ExtraDataString'.entries)))
           <=> (m_ExtraDataString.entries = <<>>)

\* C15: add_extra_data returns the cumulative byte size of the records that
\* were in the stream, which get_extra reads as a list index; every record
\* takes at least 7 bytes, so get_extra(add_extra_data(r)) is r only when the
\* stream was empty, and otherwise the data_index add_bundle stores does not
\* resolve to the bundle's own record.
C15_ExtraIdIsByteOffset ==
    [][/\ \A i \in 1..Len(m_ExtraDataString'.entries) :
             StreamBytes(<<m_ExtraDataString'.entries[i]>>) >= 7
       /\ ret'.op = "add_extra_data" => IdIsByteOffset(ret'.val[1])
       /\ (ret'.op = "add_bundle" /\ ret'.ok) =>
             IdIsByteOffset(Last(m_EntryDataString'.entries).data_index)]_vars

\* add_bundle has stored a data_index that names no record: the stream held
\* a record of 9 bytes before the call
C15_Witness ==
    /\ ret.op = "add_bundle" /\ ret.ok
    /\ Len(m_ExtraDataString.entries) = 2
    /\ Last(Entries).data_index = 9
    /\ ~get_extra(Self, Last(Entries).data_index).some

----------------------------------------------------------------------------
(* Dependencies are resolved when add_prefab is called, and never later *)

\* the bucket the last entry's dependency_key names
LastDependencyBucket ==
    m_BucketDataString.entries[Last(Entries).dependency_key_idx + 1]

\* after add_prefab: the dependency bucket holds the entries that the names
\* given owned before the call, and nothing for the other names
ResolvedAtCall ==
    (ret.op = "add_prefab" /\ ret.ok) =>
        LET before == Len(Entries) - 1
            known == SelectSeq(ret.deps, LAMBDA name : HasEntryAmong(name, before))
        IN  /\ LastDependencyBucket.count = Len(known)
            /\ LastDependencyBucket.indices = [k \in 1..Len(known) |-> FirstEntryOf(known[k])]
            /\ known = <<>> => LastDependencyBucket.indices = <<>>
            /\ \A name \in Names :
                  (\E k \in 1..Len(LastDependencyBucket.indices) :
                      /\ LastDependencyBucket.indices[k] < before
                      /\ NameOf(Entries[LastDependencyBucket.indices[k] + 1]) = name)
                  <=> (HasEntryAmong(name, before) /\ \E k \in 1..Len(ret.deps) : ret.deps[k] = name)

\* a step: add_prefab of a new string on a catalog with keys returns Ok
\* whatever its dependency names, and no call changes the dependency set of
\* an entry that was there
NeverDeferred ==
    /\ (ret'.op = "add_prefab" /\ ~InRegistry(ret'.id) /\ m_KeyDataString.entries # <<>>) =>
            ret'.ok
    /\ \A id \in 0..(Len(Entries) - 1) : DependencySet(id)' = DependencySet(id)

\* C16: add_prefab(P, key, deps) resolves deps at the call: a name with no
\* registry entry or no Entry Table record is dropped and the call still
\* returns Ok (with no name resolved the bucket has count 0 and an empty
\* list); no later call, add_bundle of the name included, changes P's
\* dependency set; the set contains B's EntryId only when B's entry was there
\* before the call.
C16_ResolvedAtCallOnly == []ResolvedAtCall /\ [][NeverDeferred]_vars

\* add_prefab(P, key, [StrB]) has returned Ok while StrB owned no entry: its
\* dependency bucket is empty
C16_Witness ==
    /\ ret.op = "add_prefab" /\ ret.ok /\ ret.deps = <<StrB>>
    /\ ~HasEntryAmong(StrB, Len(Entries))
    /\ LastDependencyBucket = BucketEntry(LastDependencyBucket.key_data_offset, 0, <<>>)
    /\ DependencySet(Len(Entries) - 1) = Some(<<>>)

----------------------------------------------------------------------------
(* The primary key of an entry and its bucket *)

\* C17: add_key seeds the new bucket with the one EntryId equal to the Entry
\* Table length; after a successful add_bundle or add_prefab the bucket at the
\* new entry's primary_key has count 1 and holds exactly the EntryId of the
\* new entry, and the key at primary_key is the string key passed in; for
\* add_prefab a second key and bucket lie between that key and the table end.
C17_PrimaryBucketNamesEntry ==
    LET keys == m_KeyDataString.entries
        buckets == m_BucketDataString.entries
        primary_key == Last(Entries).primary_key
    IN  /\ (ret.op = "add_key" /\ ret.ok) =>
              /\ ret.val = <<Len(keys) - 1>>
              /\ Last(buckets).count = 1
              /\ Last(buckets).indices = <<Len(Entries)>>
        /\ (ret.op \in {"add_bundle", "add_prefab"} /\ ret.ok) =>
              /\ primary_key = Len(keys) - (IF ret.op = "add_prefab" THEN 2 ELSE 1)
              /\ buckets[primary_key + 1].count = 1
              /\ buckets[primary_key + 1].indices = <<Len(Entries) - 1>>
              /\ keys[primary_key + 1].tag = "String"
              /\ keys[primary_key + 1].string = ret.key
              /\ keys[primary_key + 1].length = Len(ret.key)

\* add_prefab has appended entry 2 to the loaded PrefabCatalog: its primary
\* key is key 3, the hash key of its dependencies key 4
C17_Witness ==
    /\ ret.op = "add_prefab" /\ ret.ok
    /\ Len(Entries) = 3 /\ Len(m_KeyDataString.entries) = 5
    /\ Entries[3].primary_key = 3
    /\ m_BucketDataString.entries[4].indices = <<2>>
    /\ m_KeyDataString.entries[5].tag = "Hash"

\* C18: an entry appended by a successful add_prefab has provider_index 2,
\* resource_type 4 and data_index -1; the key at its dependency_key is the
\* HashKey of its dependency_hash, in another key slot than its primary_key.
C18_PrefabEntryFields ==
    (ret.op = "add_prefab" /\ ret.ok) =>
        LET entry == Last(Entries)
        IN  /\ entry.provider_index = 2
            /\ entry.resource_type = 4
            /\ entry.data_index = -1
            /\ get_key(Self, entry.dependency_key_idx) = Some(Hash(entry.dependency_hash))
            /\ entry.dependency_key_idx # entry.primary_key
            /\ get_key(Self, entry.primary_key).v.tag = "String"

\* add_prefab drew 1, a HashKey of the table, then 0: the entry carries hash 0
C18_Witness ==
    /\ ret.op = "add_prefab" /\ ret.ok
    /\ HashKeys(Self) = {0, 1}
    /\ Last(Entries).dependency_hash = 0
    /\ Last(m_KeyDataString.entries) = Hash(0)
    /\ Last(Entries).dependency_key_idx = Len(m_KeyDataString.entries) - 1

----------------------------------------------------------------------------
(* Dependency cycles.  A loaded catalog may hold one; recursive_deps then   *)
(* recurses without end, and the process dies of stack exhaustion.          *)

\* two prefabs that depend on each other: entry 0 on entry 1 through hash
\* key 1, entry 1 on entry 0 through hash key 3
CyclicCatalog ==
    Catalog(<<StrA, StrB>>,
            <<from_string(KeyK), Hash(1), from_string(KeyP), Hash(2)>>,
            <<BucketEntry(4, 1, <<0>>), BucketEntry(10, 1, <<1>>),
              BucketEntry(15, 1, <<1>>), BucketEntry(22, 1, <<0>>)>>,
            <<EntryValue(0, 2, 1, 1, -1, 0, 4), EntryValue(1, 2, 3, 2, -1, 2, 4)>>,
            <<>>)

InitCycles ==
    /\ \E c \in LoadedCatalogs \cup {CyclicCatalog} : Load(c)
    /\ ret = NoCall
    /\ aborted = FALSE
    /\ io = Idle

SpecCycles == InitCycles /\ [][Next]_vars

\* the EntryIds an EntryId depends on directly
DirectDeps(id) ==
    IF DependencySet(id).some
    THEN {DependencySet(id).v[k] : k \in 1..Len(DependencySet(id).v)}
    ELSE {}

\* the EntryIds reached from those of S in at most n steps
RECURSIVE ReachedFrom(_, _)
ReachedFrom(S, n) ==
    IF n = 0 THEN S ELSE ReachedFrom(S \cup UNION {DirectDeps(id) : id \in S}, n - 1)

\* id depends on itself, directly or through other entries
OnCycle(id) == id \in ReachedFrom(DirectDeps(id), Len(Entries))

\* a cycle can be reached from an EntryId of the list
CycleReachable(entries) ==
    \E id \in ReachedFrom({entries[k] : k \in 1..Len(entries)}, Len(Entries)) : OnCycle(id)

Acyclic == \A id \in 0..(Len(Entries) - 1) : ~OnCycle(id)

\* the dependencies of an entry add_prefab made are older entries, and
\* recursive_deps returns unless a cycle is reachable from its input
OlderDependenciesOnly ==
    /\ (ret.op = "add_prefab" /\ ret.ok) =>
          \A k \in 1..Len(LastDependencyBucket.indices) :
              LastDependencyBucket.indices[k] < Len(Entries) - 1
    /\ ret.op = "recursive_deps" => (aborted <=> CycleReachable(ret.deps))

\* C19: every EntryId in the dependency bucket of an entry made by
\* add_prefab is smaller than the entry's own EntryId (its own name is
\* dropped), so add_bundle and add_prefab keep an acyclic dependency graph
\* acyclic and recursive_deps returns on every input list; it fails to
\* return only when a dependency cycle is reachable from its input.
C19_NoCycleIntroduced ==
    []OlderDependenciesOnly /\ [][catalogVars' # catalogVars => (Acyclic => Acyclic')]_vars

\* add_prefab(StrB, key, [StrB, StrA]) has dropped its own name: the prefab
\* depends on entry 0 alone and the graph is acyclic
C19_Witness ==
    /\ ret.op = "add_prefab" /\ ret.ok
    /\ ret.id = StrB /\ ret.deps = <<StrB, StrA>>
    /\ NameOf(Last(Entries)) = StrB
    /\ LastDependencyBucket.indices = <<0>>
    /\ Acyclic

====
